---- MODULE Spec2Model ----
(***************************************************************************)
(* A model of the mongodb-ro document mapping layer (src/src/model.rs):    *)
(* the query builder, the CRUD verbs with their session-bound variants,    *)
(* the field transcoder (rename_field, hidden_fields, clear) and the index *)
(* reconciler (register_indexes).  The database driver is modelled by what *)
(* its calls do to a collection (a sequence of documents) and to its list  *)
(* of live indexes; every driver call may succeed or fail.                 *)
(***************************************************************************)
EXTENDS Integers, Sequences, FiniteSets, TLC

\* Option::None
None == "<none>"

Range(s) == {s[i] : i \in 1..Len(s)}

(***************************************************************************)
(* Column metadata (src/src/column.rs)                                     *)
(***************************************************************************)
ColumnAttr(asc, desc, unique, sphere2d, text, hidden, name) ==
    [asc |-> asc, desc |-> desc, unique |-> unique, sphere2d |-> sphere2d,
     text |-> text, hidden |-> hidden, name |-> name]

is_index_no_unique(attr) ==
    attr.asc \/ attr.desc \/ attr.sphere2d \/ attr.text # None

is_index(attr) ==
    attr.unique \/ attr.asc \/ attr.desc \/ attr.sphere2d \/ attr.text # None

\* The attribute a column can be declared with, one per index kind.
PlainAttr == ColumnAttr(FALSE, FALSE, FALSE, FALSE, None, FALSE, None)
AscUniqueAttr == ColumnAttr(TRUE, FALSE, TRUE, FALSE, None, FALSE, None)
DescAttr == ColumnAttr(FALSE, TRUE, FALSE, FALSE, None, FALSE, None)
AscDescAttr == ColumnAttr(TRUE, TRUE, FALSE, FALSE, None, FALSE, None)
UniqueAttr == ColumnAttr(FALSE, FALSE, TRUE, FALSE, None, FALSE, None)
GeoAttr == ColumnAttr(FALSE, FALSE, FALSE, TRUE, None, FALSE, None)
TextAttr == ColumnAttr(FALSE, FALSE, FALSE, FALSE, "en", FALSE, None)
TextGeoAttr == ColumnAttr(FALSE, FALSE, TRUE, TRUE, "en", FALSE, None)
IndexAttrs ==
    {PlainAttr, AscUniqueAttr, DescAttr, AscDescAttr, UniqueAttr, GeoAttr,
     TextAttr, TextGeoAttr}

(***************************************************************************)
(* State                                                                   *)
(***************************************************************************)
VARIABLES
    columns,        \* Model.columns: identifier -> ColumnAttr
    live,           \* the collection's live index descriptors, in listing order
    pc,             \* register_indexes: where each pass stands
    attrs,          \* register_indexes: the local Vec attrs of each pass
    keys_to_remove, \* register_indexes: the local Vec keys_to_remove
    batch,          \* register_indexes: the Vec<IndexModel> built for create
    idxCalls,       \* driver calls issued by the current pass of each task
    passNo,         \* number of the pass each task is in (0: none started)
    clean,          \* every index driver call so far succeeded and unpacked
    add_times,      \* Model.add_times
    inner,          \* Model.inner: the typed payload
    qb,             \* Model.query_builder
    coll,           \* the collection's documents, in insertion order
    nextId,         \* the next object identifier the server hands out
    now,            \* the clock DateTime::now() reads
    session,        \* the caller's ClientSession: its transaction state
    inflight,       \* driver operations issued and not yet returned
    log,            \* driver calls, returns and finish hooks of the last verb
    result,         \* what the last verb returned
    cpc,            \* the verb in progress: "idle", "await" or "panicked"
    cur,            \* the locals of the verb in progress
    ops             \* terminal verbs the caller still invokes

idxVars ==
    <<columns, live, pc, attrs, keys_to_remove, batch, idxCalls, passNo, clean>>

crudVars ==
    <<add_times, inner, qb, coll, nextId, now, session, inflight, log, result,
      cpc, cur, ops>>

idxVarsNoColumns ==
    <<live, pc, attrs, keys_to_remove, batch, idxCalls, passNo, clean>>

vars ==
    <<columns, live, pc, attrs, keys_to_remove, batch, idxCalls, passNo, clean,
      add_times, inner, qb, coll, nextId, now, session, inflight, log, result,
      cpc, cur, ops>>

(***************************************************************************)
(* Bounds                                                                  *)
(***************************************************************************)
MaxLive == 2        \* live indexes besides _id_ in the initial collection
MaxPasses == 2      \* register_indexes passes one task runs in succession

(***************************************************************************)
(* Index descriptors.  A live descriptor is what list_indexes yields: the  *)
(* key mapping (its key names, in order), whether an options block is      *)
(* present, and in it the declared name and the language marker.  kind and *)
(* unique record what the index was built as.                              *)
(***************************************************************************)
IndexModel(name, keys, opts, lang, kind, unique) ==
    [name |-> name, keys |-> keys, opts |-> opts, lang |-> lang,
     kind |-> kind, unique |-> unique]

IdIndex == IndexModel("_id_", <<"_id">>, TRUE, None, "1", TRUE)

\* The name the server gives an index created without one: key_kind.
GenName(key, kind) ==
    CASE key = "phone" /\ kind = "1" -> "phone_1"
      [] key = "phone" /\ kind = "-1" -> "phone_-1"
      [] key = "phone" /\ kind = "2dsphere" -> "phone_2dsphere"
      [] key = "bio" /\ kind = "1" -> "bio_1"
      [] key = "bio" /\ kind = "-1" -> "bio_-1"
      [] key = "bio" /\ kind = "2dsphere" -> "bio_2dsphere"
      [] OTHER -> "age_1"

\* The IndexModel register_indexes builds for a column left in attrs.
BuildIndexAscWins(key, attr) ==
    IF attr.text # None
    THEN [key |-> key, kind |-> "text", unique |-> attr.unique,
          name |-> key, lang |-> attr.text]
    ELSE IF attr.sphere2d
    THEN [key |-> key, kind |-> "2dsphere", unique |-> attr.unique,
          name |-> None, lang |-> None]
    ELSE [key |-> key, kind |-> IF attr.asc THEN "1" ELSE "-1",
          unique |-> attr.unique, name |-> None, lang |-> None]

BuildIndex(key, attr) ==
    IF attr.text # None
    THEN [key |-> key, kind |-> "text", unique |-> attr.unique,
          name |-> key, lang |-> attr.text]
    ELSE IF attr.sphere2d
    THEN [key |-> key, kind |-> "2dsphere", unique |-> attr.unique,
          name |-> None, lang |-> None]
    ELSE [key |-> key, kind |-> IF attr.desc THEN "-1" ELSE "1",
          unique |-> attr.unique, name |-> None, lang |-> None]

\* What the server stores for a created index: a text index is listed with
\* the key mapping {_fts, _ftsx} and its language, any other index with its
\* own key and a generated name.
StoredIndex(req) ==
    IF req.kind = "text"
    THEN IndexModel(req.name, <<"_fts", "_ftsx">>, TRUE, req.lang, "text",
                    req.unique)
    ELSE IndexModel(GenName(req.key, req.kind), <<req.key>>, TRUE, None,
                    req.kind, req.unique)

\* create_indexes is refused when a live index has the name with another
\* definition, or the keys under another name.
Conflicts(lv, d) ==
    \E i \in 1..Len(lv) :
        \/ lv[i].name = d.name /\ lv[i] # d
        \/ lv[i].keys = d.keys /\ lv[i].name # d.name

RECURSIVE AppendAll(_, _)
AppendAll(lv, ds) ==
    IF ds = {} THEN lv
    ELSE LET d == CHOOSE x \in ds : TRUE
         IN AppendAll(IF \E i \in 1..Len(lv) : lv[i] = d THEN lv
                      ELSE Append(lv, d), ds \ {d})

\* drop_index(name): the live list without the index of that name.
DropFrom(lv, name) == SelectSeq(lv, LAMBDA ix : ix.name # name)

(***************************************************************************)
(* register_indexes: the scan of the live descriptors (lines 152-190)      *)
(***************************************************************************)
ScanKeyNoIdExempt(st, ix, key) ==
    IF key \in st.attrs
    THEN [st EXCEPT !.attrs = @ \ {key}]
    ELSE IF ~ix.opts THEN st
    ELSE IF ix.lang = None
    THEN [st EXCEPT !.keys_to_remove = Append(@, ix.name)]
    ELSE IF ix.name = None
    THEN [st EXCEPT !.keys_to_remove = Append(@, ix.name)]
    ELSE IF ix.name \in st.attrs
    THEN [st EXCEPT !.attrs = @ \ {ix.name}]
    ELSE [st EXCEPT !.keys_to_remove = Append(@, ix.name)]

ScanKey(st, ix, key) ==
    IF key = "_id" THEN st
    ELSE IF key \in st.attrs
    THEN [st EXCEPT !.attrs = @ \ {key}]
    ELSE IF ~ix.opts THEN st
    ELSE IF ix.lang = None
    THEN [st EXCEPT !.keys_to_remove = Append(@, ix.name)]
    ELSE IF ix.name = None
    THEN [st EXCEPT !.keys_to_remove = Append(@, ix.name)]
    ELSE IF ix.name \in st.attrs
    THEN [st EXCEPT !.attrs = @ \ {ix.name}]
    ELSE [st EXCEPT !.keys_to_remove = Append(@, ix.name)]

RECURSIVE ScanKeys(_, _, _)
ScanKeys(st, ix, k) ==
    IF k > Len(ix.keys) THEN st
    ELSE ScanKeys(ScanKey(st, ix, ix.keys[k]), ix, k + 1)

\* items: the stream list_indexes yields; bad: the positions whose
\* descriptor fails to unpack (Err), which the scan logs and skips.
RECURSIVE ScanIndexes(_, _, _, _)
ScanIndexes(st, items, bad, i) ==
    IF i > Len(items) THEN st
    ELSE ScanIndexes(IF i \in bad THEN st ELSE ScanKeys(st, items[i], 1),
                     items, bad, i + 1)

DesiredAttrs(cols) == {name \in DOMAIN cols : is_index(cols[name])}

(***************************************************************************)
(* register_indexes as a task: list_indexes and the scan, then one         *)
(* drop_index per collected name, then at most one create_indexes.         *)
(***************************************************************************)
Tasks == {1, 2}

Call(op, name, ok) == [op |-> op, name |-> name, ok |-> ok]

\* Lines 142-228: list_indexes().await, the scan and the build of the batch.
\* ok: the outcome of list_indexes; bad: the descriptors that do not unpack.
RegList(p) ==
    /\ pc[p] \in {"idle", "done"}
    /\ passNo[p] < MaxPasses
    /\ \E ok \in BOOLEAN, bad \in {{}} \cup {{i} : i \in 1..Len(live)} :
        /\ ~ok => bad = {}
        /\ LET st0 == [attrs |-> DesiredAttrs(columns),
                       keys_to_remove |-> <<>>]
               st == IF ok THEN ScanIndexes(st0, live, bad, 1) ELSE st0
           IN /\ attrs' = [attrs EXCEPT ![p] = st.attrs]
              /\ keys_to_remove' =
                    [keys_to_remove EXCEPT ![p] = st.keys_to_remove]
              /\ batch' = [batch EXCEPT ![p] =
                    {BuildIndex(k, columns[k]) : k \in st.attrs}]
        /\ idxCalls' = [idxCalls EXCEPT ![p] = <<Call("list_indexes", None, ok)>>]
        /\ clean' = (clean /\ ok /\ bad = {})
    /\ passNo' = [passNo EXCEPT ![p] = @ + 1]
    /\ pc' = [pc EXCEPT ![p] = "drop"]
    /\ UNCHANGED <<columns, live>>
    /\ UNCHANGED crudVars

\* Lines 230-233: one iteration of the drop loop.  name.as_ref().unwrap()
\* panics on a collected None; a failed drop_index is ignored.
RegDrop(p) ==
    /\ pc[p] = "drop"
    /\ keys_to_remove[p] # <<>>
    /\ LET name == Head(keys_to_remove[p])
       IN IF name = None
          THEN /\ pc' = [pc EXCEPT ![p] = "panicked"]
               /\ UNCHANGED <<live, keys_to_remove, idxCalls, clean>>
          ELSE \E ok \in BOOLEAN :
               LET done == ok /\ \E i \in 1..Len(live) : live[i].name = name
               IN /\ live' = IF done THEN DropFrom(live, name) ELSE live
                  /\ idxCalls' = [idxCalls EXCEPT ![p] =
                        Append(@, Call("drop_index", name, done))]
                  /\ clean' = (clean /\ done)
                  /\ keys_to_remove' = [keys_to_remove EXCEPT ![p] = Tail(@)]
                  /\ pc' = pc
    /\ UNCHANGED <<columns, attrs, batch, passNo>>
    /\ UNCHANGED crudVars

\* Lines 234-240: the batched create_indexes, if there is anything to create,
\* and the return.  A failed create is logged and swallowed.
RegCreate(p) ==
    /\ pc[p] = "drop"
    /\ keys_to_remove[p] = <<>>
    /\ IF batch[p] = {}
       THEN UNCHANGED <<live, idxCalls, clean>>
       ELSE \E ok \in BOOLEAN :
            LET stored == {StoredIndex(d) : d \in batch[p]}
                done == ok /\ \A d \in stored : ~Conflicts(live, d)
            IN /\ live' = IF done THEN AppendAll(live, stored) ELSE live
               /\ idxCalls' = [idxCalls EXCEPT ![p] =
                     Append(@, Call("create_indexes", None, done))]
               /\ clean' = (clean /\ done)
    /\ pc' = [pc EXCEPT ![p] = "done"]
    /\ UNCHANGED <<columns, attrs, keys_to_remove, batch, passNo>>
    /\ UNCHANGED crudVars

(***************************************************************************)
(* The collections a pass can meet: _id_ first, then up to MaxLive of      *)
(* these descriptors, no name twice.                                       *)
(***************************************************************************)
LiveCandidates ==
    {IndexModel("phone_1", <<"phone">>, TRUE, None, "1", TRUE),
     IndexModel("phone_-1", <<"phone">>, TRUE, None, "-1", FALSE),
     IndexModel("age_1", <<"age">>, TRUE, None, "1", FALSE),
     IndexModel("phone_1_age_1", <<"phone", "age">>, TRUE, None, "1", FALSE),
     IndexModel("bio", <<"_fts", "_ftsx">>, TRUE, "en", "text", FALSE),
     IndexModel("notes", <<"_fts", "_ftsx">>, TRUE, "en", "text", FALSE),
     IndexModel(None, <<"age">>, TRUE, None, "1", FALSE),
     IndexModel(None, <<"age">>, FALSE, None, "1", FALSE)}

RECURSIVE LiveSeqs(_)
LiveSeqs(n) ==
    IF n = 0 THEN {<<IdIndex>>}
    ELSE LET shorter == LiveSeqs(n - 1)
         IN shorter \cup
            {Append(s, c) : s \in {t \in shorter : Len(t) = n},
                            c \in LiveCandidates}

InitialLives ==
    {s \in LiveSeqs(MaxLive) :
        \A i, j \in 1..Len(s) :
            (i # j /\ s[i].name # None) => s[i].name # s[j].name}

(***************************************************************************)
(* Documents.  A document is a function from its keys to values; a value   *)
(* is a string: Null, a text, an object identifier or a datetime.  An      *)
(* update payload nests one level: its values are leaves or sub-documents. *)
(***************************************************************************)
Null == "null"
Texts == {"", "a", "b", "s"}
Oids == {"o1", "o2", "o3", "o4"}
Dates == {"t0", "t1", "t2", "t3"}

OidOf(n) == CASE n = 1 -> "o1" [] n = 2 -> "o2" [] n = 3 -> "o3" [] OTHER -> "o4"
DateOf(n) == CASE n = 1 -> "t1" [] n = 2 -> "t2" [] OTHER -> "t3"

EmptyDoc == [k \in {} |-> ""]
Insert(d, k, v) == [x \in DOMAIN d \cup {k} |-> IF x = k THEN v ELSE d[x]]
Remove(d, k) == [x \in DOMAIN d \ {k} |-> d[x]]
Merge(d, e) == [x \in DOMAIN d \cup DOMAIN e |-> IF x \in DOMAIN e THEN e[x] ELSE d[x]]

Leaf(s) == [isdoc |-> FALSE, s |-> s, d |-> EmptyDoc]
Sub(d) == [isdoc |-> TRUE, s |-> "", d |-> d]

\* a.starts_with("$")
IsOperator(k) == k \in {"$set", "$setOnInsert", "$unset"}

\* Every order in which a HashMap can yield the keys in S.
RECURSIVE Orders(_)
Orders(S) ==
    IF S = {} THEN {<<>>}
    ELSE UNION {{<<x>> \o t : t \in Orders(S \ {x})} : x \in S}

(***************************************************************************)
(* The record type M: the User of tests/main.rs, with the fields the       *)
(* transcoder treats differently.                                          *)
(***************************************************************************)
StructFields == {"_id", "name", "password", "updated_at", "created_at"}

DefaultM ==
    [_id |-> Null, name |-> "", password |-> "", updated_at |-> Null,
     created_at |-> Null]

\* bson::from_document into M succeeds when every field has its type.
Decodable(d) ==
    /\ d["_id"] \in Oids \cup {Null}
    /\ d["name"] \in Texts
    /\ d["password"] \in Texts
    /\ d["updated_at"] \in Dates \cup {Null}
    /\ d["created_at"] \in Dates \cup {Null}

HiddenAttr(name) == ColumnAttr(FALSE, FALSE, FALSE, FALSE, None, TRUE, name)
LazyAttr(name) == ColumnAttr(FALSE, FALSE, FALSE, FALSE, None, FALSE, name)

\* The column metadata of User: one column per field, password hidden and
\* stored as pswd.
UserColumns ==
    [f \in StructFields |->
        IF f = "password" THEN HiddenAttr("pswd") ELSE PlainAttr]

(***************************************************************************)
(* Field transcoder (lines 800-880)                                        *)
(***************************************************************************)
\* One column of rename_field on a flat document: insert under the wire
\* name, then remove the identifier.
RenameOneKeepIdent(doc, name, a) ==
    IF name \in DOMAIN doc THEN Insert(doc, a, doc[name]) ELSE doc

RenameOne(doc, name, a) ==
    IF name \in DOMAIN doc THEN Remove(Insert(doc, a, doc[name]), name) ELSE doc

\* One column of rename_field in operator form: the same inside every
\* top-level value, each of which must be a document.
RenameOneOpt(data, name, a) ==
    [k \in DOMAIN data |-> Sub(RenameOne(data[k].d, name, a))]

RECURSIVE RenameFlat(_, _, _)
RenameFlat(doc, cols, order) ==
    IF order = <<>> THEN doc
    ELSE RenameFlat(RenameOne(doc, Head(order), cols[Head(order)].name),
                    cols, Tail(order))

RECURSIVE RenameOpt(_, _, _)
RenameOpt(data, cols, order) ==
    IF order = <<>> THEN data
    ELSE RenameOpt(RenameOneOpt(data, Head(order), cols[Head(order)].name),
                   cols, Tail(order))

Named(cols) == {n \in DOMAIN cols : cols[n].name # None}

\* rename_field(doc, false): the documents it can leave, one per iteration
\* order of the columns.
rename_field(doc, cols) ==
    {RenameFlat(doc, cols, o) : o \in Orders(Named(cols))}

\* rename_field(data, true) unwraps every top-level value as a document
\* once per named column: it panics if one is not.
RenameOptPanics(data, cols) ==
    Named(cols) # {} /\ \E k \in DOMAIN data : ~data[k].isdoc

rename_field_opt(data, cols) ==
    {RenameOpt(data, cols, o) : o \in Orders(Named(cols))}

\* inner_to_doc: to_document(&self.inner), then rename_field(.., false).
inner_to_doc(m, cols) == rename_field(m, cols)

hidden_fields_all(cols, visible) == {n \in DOMAIN cols : cols[n].hidden}

hidden_fields(cols, visible) ==
    {n \in DOMAIN cols : cols[n].hidden /\ n \notin Range(visible)}

Wire(cols, n) == IF cols[n].name = None THEN n ELSE cols[n].name

\* clear, up to the final deserialization: the default template with the
\* value of every column that is not hidden and whose wire name is in data.
clear_no_mask(data, hidden, cols) ==
    LET copied == {n \in DOMAIN cols : Wire(cols, n) \in DOMAIN data}
    IN [k \in StructFields \cup copied |->
            IF k \in copied THEN data[Wire(cols, k)] ELSE DefaultM[k]]

clear(data, hidden, cols) ==
    LET copied == {n \in DOMAIN cols :
                      n \notin hidden /\ Wire(cols, n) \in DOMAIN data}
    IN [k \in StructFields \cup copied |->
            IF k \in copied THEN data[Wire(cols, k)] ELSE DefaultM[k]]

\* bson::from_document(default): the fields of M, the other keys ignored.
from_document(d) == [f \in StructFields |-> d[f]]

(***************************************************************************)
(* The database capability on a collection: a sequence of documents in     *)
(* insertion order.  A filter is the list of where documents ($and), each  *)
(* an equality match; a sort is one key with a direction; a projection is  *)
(* the set of included keys.                                               *)
(***************************************************************************)
NoSort == [key |-> None, dir |-> 1]
NoSelect == [some |-> FALSE, keys |-> {}]

Rank(v) ==
    CASE v = Null -> 0 [] v = "" -> 1 [] v = "a" -> 2 [] v = "b" -> 3
      [] v = "s" -> 4 [] v = "t0" -> 5 [] v = "t1" -> 6 [] v = "t2" -> 7
      [] v = "t3" -> 8 [] v = "o1" -> 9 [] v = "o2" -> 10 [] v = "o3" -> 11
      [] OTHER -> 12

KeyRank(doc, key) == IF key \in DOMAIN doc THEN Rank(doc[key]) ELSE 0

Before(d1, d2, sort) ==
    IF sort.dir = 1 THEN KeyRank(d1, sort.key) < KeyRank(d2, sort.key)
    ELSE KeyRank(d1, sort.key) > KeyRank(d2, sort.key)

Matches(doc, f) == \A k \in DOMAIN f : k \in DOMAIN doc /\ doc[k] = f[k]
MatchesAll(doc, whr) == \A i \in 1..Len(whr) : Matches(doc, whr[i])

\* The positions of the matching documents, in natural order.
RECURSIVE MatchIdx(_, _, _)
MatchIdx(c, whr, i) ==
    IF i > Len(c) THEN <<>>
    ELSE (IF MatchesAll(c[i], whr) THEN <<i>> ELSE <<>>)
         \o MatchIdx(c, whr, i + 1)

RECURSIVE InsertSorted(_, _, _, _)
InsertSorted(s, i, c, sort) ==
    IF s = <<>> THEN <<i>>
    ELSE IF Before(c[i], c[Head(s)], sort) THEN <<i>> \o s
    ELSE <<Head(s)>> \o InsertSorted(Tail(s), i, c, sort)

\* A stable sort of the positions idx of c.
RECURSIVE SortIdx(_, _, _)
SortIdx(idx, c, sort) ==
    IF sort.key = None \/ idx = <<>> THEN idx
    ELSE InsertSorted(SortIdx(SubSeq(idx, 1, Len(idx) - 1), c, sort),
                      idx[Len(idx)], c, sort)

Project(d, select) ==
    IF ~select.some THEN d
    ELSE [k \in DOMAIN d \cap (select.keys \cup {"_id"}) |-> d[k]]

\* find(filter) with sort, skip, limit and projection (0: unset).
FindDocs(c, whr, sort, skip, limit, select) ==
    LET s == SortIdx(MatchIdx(c, whr, 1), c, sort)
        a == SubSeq(s, skip + 1, Len(s))
        l == IF limit > 0 /\ limit < Len(a) THEN SubSeq(a, 1, limit) ELSE a
    IN [i \in 1..Len(l) |-> Project(c[l[i]], select)]

\* count_documents(filter) with the skip and limit options.
CountDocs(c, whr, skip, limit) ==
    LET n == Len(MatchIdx(c, whr, 1))
        a == IF n > skip THEN n - skip ELSE 0
    IN IF limit > 0 /\ limit < a THEN limit ELSE a

\* The server accepts an update expression whose top-level keys are all
\* operators holding documents.
ValidUpdate(upd) ==
    /\ DOMAIN upd # {}
    /\ \A k \in DOMAIN upd : IsOperator(k) /\ upd[k].isdoc

Part(upd, k) == IF k \in DOMAIN upd THEN upd[k].d ELSE EmptyDoc

ApplyUpdate(doc, upd, inserting) ==
    LET unset == [k \in DOMAIN doc \ DOMAIN Part(upd, "$unset") |-> doc[k]]
        set == Merge(unset, Part(upd, "$set"))
    IN IF inserting THEN Merge(set, Part(upd, "$setOnInsert")) ELSE set

\* The document an upsert inserts: the equality fields of the filter, then
\* the update, then a fresh _id.
RECURSIVE FilterDoc(_)
FilterDoc(whr) ==
    IF whr = <<>> THEN EmptyDoc ELSE Merge(Head(whr), FilterDoc(Tail(whr)))

UpsertDoc(whr, upd, id) ==
    LET d == ApplyUpdate(FilterDoc(whr), upd, TRUE)
    IN IF "_id" \in DOMAIN d THEN d ELSE Insert(d, "_id", id)

CountStr(n) == CASE n = 0 -> "0" [] n = 1 -> "1" [] n = 2 -> "2" [] OTHER -> "3"

(***************************************************************************)
(* Query builder (lines 21-31, 242-297)                                    *)
(***************************************************************************)
MaxWhere == 2       \* where clauses a model accumulates
MaxSettings == 3    \* builder settings away from their default at one time
MaxSkip == 1        \* largest skip a caller passes
MaxLimit == 1       \* largest limit a caller passes
MaxOps == 1         \* terminal verbs invoked on a collection as found
MaxRoundOps == 2    \* terminal verbs invoked from an empty collection
MaxDocs == 2        \* documents in a collection as found

QueryBuilder(whr, all, upsert, select, sort, skip, limit, visible_fields) ==
    [where |-> whr, all |-> all, upsert |-> upsert, select |-> select,
     sort |-> sort, skip |-> skip, limit |-> limit,
     visible_fields |-> visible_fields]

\* QueryBuilder::default()
DefaultQB == QueryBuilder(<<>>, FALSE, FALSE, NoSelect, NoSort, 0, 0, <<>>)

\* The number of settings of q that differ from QueryBuilder::default().
Settings(q) ==
    Len(q.where) + (IF q.all THEN 1 ELSE 0) + (IF q.upsert THEN 1 ELSE 0)
    + (IF q.select # NoSelect THEN 1 ELSE 0) + (IF q.sort # NoSort THEN 1 ELSE 0)
    + (IF q.skip # 0 THEN 1 ELSE 0) + (IF q.limit # 0 THEN 1 ELSE 0)
    + (IF q.visible_fields # <<>> THEN 1 ELSE 0)

\* What callers pass to the builder.
WhereDocs == {[name |-> "a"], [pswd |-> "s"]}
SortDocs == {[key |-> "name", dir |-> -1]}
SelectDocs == {[some |-> TRUE, keys |-> {"name"}]}
VisibleLists == {<<"password">>}
Inners == {[DefaultM EXCEPT !.name = "a", !.password = "s"]}
LazyNames == {"name"}

\* The empty update payload.
NoUpd == [k \in {} |-> Leaf("")]

\* A driver operation as issued: the call, its arguments and its options.
Req(op, sess, whr, doc, upd, ups, srt, skp, lim, sel, field) ==
    [op |-> op, sess |-> sess, whr |-> whr, doc |-> doc, upd |-> upd,
     upsert |-> ups, sort |-> srt, skip |-> skp, limit |-> lim,
     select |-> sel, field |-> field]
NoReq ==
    Req(None, FALSE, <<>>, EmptyDoc, NoUpd, FALSE, NoSort, 0, 0, NoSelect, None)

\* Events of a verb invocation: a driver call, its return, a finish hook.
Ev(ev, op, sess, err, old, doc, upd, req) ==
    [ev |-> ev, op |-> op, sess |-> sess, err |-> err, old |-> old,
     doc |-> doc, upd |-> upd, req |-> req]
CallEv(req) ==
    Ev("call", req.op, req.sess, None, EmptyDoc, EmptyDoc, NoUpd, req)
RetEv(req, err) ==
    Ev("ret", req.op, req.sess, err, EmptyDoc, EmptyDoc, NoUpd, NoReq)
\* finish(&self.req, typ, old, new, session): new is a flat document
\* (create, delete) or an update expression (update).
FinishEv(typ, sess, old, doc, upd) ==
    Ev("finish", typ, sess, None, old, doc, upd, NoReq)

Result(verb, kind, err, doc, docs, n) ==
    [verb |-> verb, kind |-> kind, err |-> err, doc |-> doc, docs |-> docs,
     n |-> n]
NoResult == Result(None, "none", None, EmptyDoc, <<>>, 0)

\* The frame of the verb that awaits the driver: its arguments (the session,
\* update's payload) and its locals.
Cur(verb, sess, doc, upd, hidden, payload) ==
    [verb |-> verb, sess |-> sess, doc |-> doc, upd |-> upd,
     hidden |-> hidden, payload |-> payload]
NoCur == Cur(None, FALSE, EmptyDoc, NoUpd, {}, NoUpd)

\* A builder call leaves everything but the model's own fields, and closes
\* the record of the last verb.
Configure ==
    /\ cpc = "idle"
    /\ log' = <<>>
    /\ result' = NoResult
    /\ cur' = NoCur
    /\ UNCHANGED <<coll, nextId, now, session, inflight, cpc, ops>>
    /\ UNCHANGED idxVarsNoColumns

reset ==
    /\ Configure
    /\ qb' = DefaultQB
    /\ UNCHANGED <<columns, add_times, inner>>

where_replacing ==
    /\ Configure
    /\ Len(qb.where) < MaxWhere
    /\ \E data \in WhereDocs : qb' = [qb EXCEPT !.where = <<data>>]
    /\ Settings(qb') <= MaxSettings
    /\ UNCHANGED <<columns, add_times, inner>>

where ==
    /\ Configure
    /\ Len(qb.where) < MaxWhere
    /\ \E data \in WhereDocs : qb' = [qb EXCEPT !.where = Append(@, data)]
    /\ Settings(qb') <= MaxSettings
    /\ UNCHANGED <<columns, add_times, inner>>

skip ==
    /\ Configure
    /\ \E count \in 0..MaxSkip : qb' = [qb EXCEPT !.skip = count]
    /\ Settings(qb') <= MaxSettings
    /\ UNCHANGED <<columns, add_times, inner>>

limit ==
    /\ Configure
    /\ \E count \in 0..MaxLimit : qb' = [qb EXCEPT !.limit = count]
    /\ Settings(qb') <= MaxSettings
    /\ UNCHANGED <<columns, add_times, inner>>

sort ==
    /\ Configure
    /\ \E data \in SortDocs : qb' = [qb EXCEPT !.sort = data]
    /\ Settings(qb') <= MaxSettings
    /\ UNCHANGED <<columns, add_times, inner>>

all ==
    /\ Configure
    /\ qb' = [qb EXCEPT !.all = TRUE]
    /\ Settings(qb') <= MaxSettings
    /\ UNCHANGED <<columns, add_times, inner>>

select ==
    /\ Configure
    /\ \E data \in SelectDocs : qb' = [qb EXCEPT !.select = data]
    /\ Settings(qb') <= MaxSettings
    /\ UNCHANGED <<columns, add_times, inner>>

visible ==
    /\ Configure
    /\ \E data \in VisibleLists : qb' = [qb EXCEPT !.visible_fields = data]
    /\ Settings(qb') <= MaxSettings
    /\ UNCHANGED <<columns, add_times, inner>>

upsert ==
    /\ Configure
    /\ qb' = [qb EXCEPT !.upsert = TRUE]
    /\ Settings(qb') <= MaxSettings
    /\ UNCHANGED <<columns, add_times, inner>>

fill ==
    /\ Configure
    /\ \E m \in Inners : inner' = m
    /\ UNCHANGED <<columns, add_times, qb>>

add_columns ==
    /\ Configure
    /\ \E name \in LazyNames :
        columns' = [n \in DOMAIN columns \cup {name} |->
                       IF n = name THEN LazyAttr(name) ELSE columns[n]]
    /\ UNCHANGED <<add_times, inner, qb>>

(***************************************************************************)
(* Terminal verbs, first half: from the call to the driver operation being *)
(* issued (or to an early return or a panic).                              *)
(***************************************************************************)
UpdatePayloads ==
    {[name |-> Leaf("b")],
     [password |-> Leaf("b")],
     "$set" :> Sub([password |-> "b"]),
     "$unset" :> Sub([name |-> ""]),
     "$set" :> Leaf("a")}

RawDocs ==
    {[name |-> "a", pswd |-> "s"],
     [name |-> "b", created_at |-> "t0"],
     [_id |-> "a", name |-> "a"]}

\* The pipelines callers pass to aggregate: every document, a $match stage,
\* a $project stage.
Pipelines ==
    {[whr |-> <<>>, select |-> NoSelect],
     [whr |-> <<[name |-> "a"]>>, select |-> NoSelect],
     [whr |-> <<>>, select |-> [some |-> TRUE, keys |-> {"name"}]]}

Errors == {"E1", "E2"}
InvalidInput == "InvalidInput"

VerbFrame == UNCHANGED <<coll, nextId, session>> /\ UNCHANGED idxVarsNoColumns

\* The driver operation goes out: the verb awaits it.
IssueTwice(verb, req, hidden, payload) ==
    /\ inflight' = inflight \cup {req, [req EXCEPT !.field = "retry"]}
    /\ log' = <<CallEv(req), CallEv(req)>>
    /\ cur' = Cur(verb, req.sess, req.doc, req.upd, hidden, payload)
    /\ cpc' = "await"
    /\ result' = NoResult

Issue(verb, req, hidden, payload) ==
    /\ inflight' = inflight \cup {req}
    /\ log' = <<CallEv(req)>>
    /\ cur' = Cur(verb, req.sess, req.doc, req.upd, hidden, payload)
    /\ cpc' = "await"
    /\ result' = NoResult

\* The where check of update and delete fails: Err(InvalidInput), nothing
\* issued.
UsageError(verb, sess, payload) ==
    /\ result' = Result(verb, "err", InvalidInput, EmptyDoc, <<>>, 0)
    /\ log' = <<>>
    /\ cur' = Cur(verb, sess, EmptyDoc, NoUpd, {}, payload)
    /\ UNCHANGED <<inflight, cpc>>

\* An unwrap() on None or Err: the verb does not return.
Panic(verb, sess, payload) ==
    /\ result' = Result(verb, "panic", None, EmptyDoc, <<>>, 0)
    /\ log' = <<>>
    /\ cur' = Cur(verb, sess, EmptyDoc, NoUpd, {}, payload)
    /\ cpc' = "panicked"
    /\ UNCHANGED inflight

\* A verb is invoked: the clock has moved on since the last one, and now'
\* is the time the verb reads.
Enter ==
    /\ cpc = "idle"
    /\ ops > 0
    /\ ops' = ops - 1
    /\ now' = now + 1

\* Lines 340-347 and 385-392: updated_at and created_at get the current
\* time unless the payload holds a datetime there.
Stamp(data, t) ==
    LET u == IF "updated_at" \in DOMAIN data /\ data["updated_at"] \in Dates
             THEN data ELSE Insert(data, "updated_at", t)
    IN IF "created_at" \in DOMAIN u /\ u["created_at"] \in Dates
       THEN u ELSE Insert(u, "created_at", t)

\* Lines 337-347: an _id that is no object identifier goes, the times come.
CreateData(doc, addt, t) ==
    LET d1 == IF "_id" \in DOMAIN doc /\ doc["_id"] \in Oids
              THEN doc ELSE Remove(doc, "_id")
    IN IF addt THEN Stamp(d1, t) ELSE d1

\* Lines 335-375.
create ==
    /\ Enter
    /\ \E sess \in BOOLEAN, doc \in inner_to_doc(inner, columns) :
        LET data == CreateData(doc, add_times, DateOf(now'))
        IN Issue("create",
                 Req("insert_one", sess, <<>>, data, NoUpd, FALSE, NoSort,
                     0, 0, NoSelect, None), {}, NoUpd)
    /\ UNCHANGED <<columns, add_times, inner, qb>>
    /\ VerbFrame

\* Lines 378-420.
create_doc ==
    /\ Enter
    /\ \E sess \in BOOLEAN, raw \in RawDocs :
        LET data == IF add_times THEN Stamp(raw, DateOf(now')) ELSE raw
        IN Issue("create_doc",
                 Req("insert_one", sess, <<>>, data, NoUpd, FALSE, NoSort,
                     0, 0, NoSelect, None), {}, NoUpd)
    /\ UNCHANGED <<columns, add_times, inner, qb>>
    /\ VerbFrame

\* Lines 437-443: the payload is in operator form if a top-level key starts
\* with "$".
is_opt(payload) == \E k \in DOMAIN payload : IsOperator(k)

Flat(payload) == [k \in DOMAIN payload |-> payload[k].s]

\* Lines 445-448: rename, then wrap a plain payload under "$set".
Wrapped(payload, cols) ==
    IF is_opt(payload) THEN rename_field_opt(payload, cols)
    ELSE {"$set" :> Sub(d) : d \in rename_field(Flat(payload), cols)}

\* Lines 449-455.
WithUpdatedAt(data, t) ==
    LET d0 == IF "$set" \in DOMAIN data THEN data
              ELSE Insert(data, "$set", Sub(EmptyDoc))
    IN [d0 EXCEPT !["$set"] = Sub(Insert(@.d, "updated_at", t))]

\* Lines 457-469.
WithCreatedAt(data, t) ==
    LET d0 == IF "$setOnInsert" \in DOMAIN data THEN data
              ELSE Insert(data, "$setOnInsert", Sub(EmptyDoc))
    IN [d0 EXCEPT !["$setOnInsert"] = Sub(Insert(@.d, "created_at", t))]

\* The unwrap() calls of lines 445-469 that a payload can trip.
UpdatePanics(payload, cols, addt, ups) ==
    \/ is_opt(payload) /\ RenameOptPanics(payload, cols)
    \/ addt /\ "$set" \in DOMAIN payload /\ ~payload["$set"].isdoc
    \/ addt /\ ups /\ "$setOnInsert" \in DOMAIN payload
       /\ ~payload["$setOnInsert"].isdoc

\* Lines 437-469: the update expressions update can build from a payload.
UpdateDataAlwaysOnInsert(payload, cols, addt, ups, t) ==
    {WithCreatedAt(IF addt THEN WithUpdatedAt(w, t) ELSE w, t) :
        w \in Wrapped(payload, cols)}

UpdateData(payload, cols, addt, ups, t) ==
    {LET u == IF addt THEN WithUpdatedAt(w, t) ELSE w
     IN IF ups /\ addt THEN WithCreatedAt(u, t) ELSE u :
        w \in Wrapped(payload, cols)}

\* Lines 479-548: the dispatch on the all flag.  update_many takes the
\* filter, the update and the upsert flag; find_one_and_update takes the
\* sort as well.
UpdateReqNoSort(q, sess, data) ==
    Req(IF q.all THEN "update_many" ELSE "find_one_and_update",
        sess, q.where, EmptyDoc, data, q.upsert, NoSort, 0, 0, NoSelect, None)

UpdateReqNoUpsert(q, sess, data) ==
    Req(IF q.all THEN "update_many" ELSE "find_one_and_update",
        sess, q.where, EmptyDoc, data, FALSE,
        IF q.all THEN NoSort ELSE q.sort, 0, 0, NoSelect, None)

UpdateReq(q, sess, data) ==
    Req(IF q.all THEN "update_many" ELSE "find_one_and_update",
        sess, q.where, EmptyDoc, data, q.upsert,
        IF q.all THEN NoSort ELSE q.sort, 0, 0, NoSelect, None)

\* Lines 432-550, up to the driver call.
update ==
    /\ Enter
    /\ \E sess \in BOOLEAN, payload \in UpdatePayloads :
        IF UpdatePanics(payload, columns, add_times, qb.upsert)
        THEN Panic("update", sess, payload)
        ELSE IF qb.where = <<>>
        THEN UsageError("update", sess, payload)
        ELSE \E data \in UpdateData(payload, columns, add_times, qb.upsert,
                                    DateOf(now')) :
            Issue("update", UpdateReq(qb, sess, data), {}, payload)
    /\ UNCHANGED <<columns, add_times, inner, qb>>
    /\ VerbFrame

\* Lines 569-628: the dispatch on the all flag.
DeleteReqAlwaysOne(q, sess) ==
    Req("find_one_and_delete", sess, q.where, EmptyDoc, NoUpd, FALSE, q.sort,
        0, 0, NoSelect, None)

DeleteReq(q, sess) ==
    Req(IF q.all THEN "delete_many" ELSE "find_one_and_delete",
        sess, q.where, EmptyDoc, NoUpd, FALSE,
        IF q.all THEN NoSort ELSE q.sort, 0, 0, NoSelect, None)

\* Lines 559-630, up to the driver call.
delete ==
    /\ Enter
    /\ \E sess \in BOOLEAN :
        IF qb.where = <<>>
        THEN UsageError("delete", sess, NoUpd)
        ELSE Issue("delete", DeleteReq(qb, sess), {}, NoUpd)
    /\ UNCHANGED <<columns, add_times, inner, qb>>
    /\ VerbFrame

\* The find of get and get_doc (lines 641-660, 721-739).
FindReq(q, sess) ==
    Req("find", sess, q.where, EmptyDoc, NoUpd, FALSE, q.sort, q.skip,
        q.limit, q.select, None)

\* Lines 640-679.
get ==
    /\ Enter
    /\ \E sess \in BOOLEAN :
        Issue("get", FindReq(qb, sess),
              hidden_fields(columns, qb.visible_fields), NoUpd)
    /\ UNCHANGED <<columns, add_times, inner, qb>>
    /\ VerbFrame

\* Lines 682-689: limit = 1, then get.
first ==
    /\ Enter
    /\ qb' = [qb EXCEPT !.limit = 1]
    /\ \E sess \in BOOLEAN :
        Issue("first", FindReq(qb', sess),
              hidden_fields(columns, qb.visible_fields), NoUpd)
    /\ UNCHANGED <<columns, add_times, inner>>
    /\ VerbFrame

\* Lines 720-758.
get_doc ==
    /\ Enter
    /\ \E sess \in BOOLEAN : Issue("get_doc", FindReq(qb, sess), {}, NoUpd)
    /\ UNCHANGED <<columns, add_times, inner, qb>>
    /\ VerbFrame

\* Lines 761-771.
first_doc ==
    /\ Enter
    /\ qb' = [qb EXCEPT !.limit = 1]
    /\ \E sess \in BOOLEAN : Issue("first_doc", FindReq(qb', sess), {}, NoUpd)
    /\ UNCHANGED <<columns, add_times, inner>>
    /\ VerbFrame

AggReq(pipeline, sess) ==
    Req("aggregate", sess, pipeline.whr, EmptyDoc, NoUpd, FALSE, NoSort, 0, 0,
        pipeline.select, None)

\* Lines 692-717.
aggregate ==
    /\ Enter
    /\ \E sess \in BOOLEAN, pipeline \in Pipelines :
        Issue("aggregate", AggReq(pipeline, sess),
              hidden_fields(columns, qb.visible_fields), NoUpd)
    /\ UNCHANGED <<columns, add_times, inner, qb>>
    /\ VerbFrame

\* Lines 774-798.
aggregate_doc ==
    /\ Enter
    /\ \E sess \in BOOLEAN, pipeline \in Pipelines :
        Issue("aggregate_doc", AggReq(pipeline, sess), {}, NoUpd)
    /\ UNCHANGED <<columns, add_times, inner, qb>>
    /\ VerbFrame

\* Lines 258-267.
distinct ==
    /\ Enter
    /\ \E name \in {"name"} :
        Issue("distinct",
              Req("distinct", FALSE, qb.where, EmptyDoc, NoUpd, FALSE, NoSort,
                  0, 0, NoSelect, name), {}, NoUpd)
    /\ UNCHANGED <<columns, add_times, inner, qb>>
    /\ VerbFrame

\* Lines 300-321: the filter, and skip and limit as count options.
CountReqNoSkip(q) ==
    Req("count_documents", FALSE, q.where, EmptyDoc, NoUpd, FALSE, NoSort,
        0, q.limit, NoSelect, None)

CountReq(q) ==
    Req("count_documents", FALSE, q.where, EmptyDoc, NoUpd, FALSE, NoSort,
        q.skip, q.limit, NoSelect, None)

\* Lines 300-326.
count_documents ==
    /\ Enter
    /\ Issue("count_documents", CountReq(qb), {}, NoUpd)
    /\ UNCHANGED <<columns, add_times, inner, qb>>
    /\ VerbFrame

(***************************************************************************)
(* The driver executes an operation on the collection.                     *)
(***************************************************************************)
\* What an operation leaves and yields when the server carries it out:
\* the collection, the documents found, the pre-image, a count, the
\* inserted identifier; ok is FALSE when the server refuses it.
Outcome(ok, c, docs, old, n, id) ==
    [ok |-> ok, coll |-> c, docs |-> docs, old |-> old, n |-> n, id |-> id]

Refused(c) == Outcome(FALSE, c, <<>>, EmptyDoc, 0, None)

ReplaceAt(c, S, upd) ==
    [i \in 1..Len(c) |-> IF i \in S THEN ApplyUpdate(c[i], upd, FALSE) ELSE c[i]]

RECURSIVE RemoveFrom(_, _, _)
RemoveFrom(c, S, i) ==
    IF i > Len(c) THEN <<>>
    ELSE (IF i \in S THEN <<>> ELSE <<c[i]>>) \o RemoveFrom(c, S, i + 1)

RemoveAt(c, S) == RemoveFrom(c, S, 1)

\* The values in V as a sequence, lowest first, each as a one-key document.
RECURSIVE ValueSeq(_)
ValueSeq(V) ==
    IF V = {} THEN <<>>
    ELSE LET v == CHOOSE x \in V : \A y \in V : Rank(x) <= Rank(y)
         IN <<[value |-> v]>> \o ValueSeq(V \ {v})

Exec(req, c, id) ==
    LET m == MatchIdx(c, req.whr, 1)
        s == SortIdx(m, c, req.sort)
    IN CASE req.op = "insert_one" ->
            LET key == IF "_id" \in DOMAIN req.doc THEN req.doc["_id"] ELSE id
            IN IF \E i \in 1..Len(c) : c[i]["_id"] = key THEN Refused(c)
               ELSE Outcome(TRUE, Append(c, Insert(req.doc, "_id", key)),
                            <<>>, EmptyDoc, 1, key)
         [] req.op = "update_many" ->
            IF ~ValidUpdate(req.upd) THEN Refused(c)
            ELSE LET c1 == ReplaceAt(c, Range(m), req.upd)
                     n == Cardinality({i \in Range(m) : c1[i] # c[i]})
                 IN IF m = <<>> /\ req.upsert
                    THEN Outcome(TRUE, Append(c, UpsertDoc(req.whr, req.upd, id)),
                                 <<>>, EmptyDoc, 0, id)
                    ELSE Outcome(TRUE, c1, <<>>, EmptyDoc, n, None)
         [] req.op = "find_one_and_update" ->
            IF ~ValidUpdate(req.upd) THEN Refused(c)
            ELSE IF s # <<>>
            THEN Outcome(TRUE, ReplaceAt(c, {s[1]}, req.upd), <<c[s[1]]>>,
                         c[s[1]], 1, None)
            ELSE IF req.upsert
            THEN Outcome(TRUE, Append(c, UpsertDoc(req.whr, req.upd, id)),
                         <<>>, EmptyDoc, 0, id)
            ELSE Outcome(TRUE, c, <<>>, EmptyDoc, 0, None)
         [] req.op = "delete_many" ->
            Outcome(TRUE, RemoveAt(c, Range(m)), <<>>, EmptyDoc, Len(m), None)
         [] req.op = "find_one_and_delete" ->
            IF s # <<>>
            THEN Outcome(TRUE, RemoveAt(c, {s[1]}), <<c[s[1]]>>, c[s[1]], 1, None)
            ELSE Outcome(TRUE, c, <<>>, EmptyDoc, 0, None)
         [] req.op \in {"find", "aggregate"} ->
            Outcome(TRUE, c,
                    FindDocs(c, req.whr, req.sort, req.skip, req.limit,
                             req.select),
                    EmptyDoc, 0, None)
         [] req.op = "distinct" ->
            LET vals == {c[m[i]][req.field] :
                            i \in {j \in 1..Len(m) : req.field \in DOMAIN c[m[j]]}}
            IN Outcome(TRUE, c, ValueSeq(vals), EmptyDoc, Cardinality(vals), None)
         [] OTHER ->
            Outcome(TRUE, c, <<>>, EmptyDoc,
                    CountDocs(c, req.whr, req.skip, req.limit), None)

(***************************************************************************)
(* Terminal verbs, second half: the driver operation returns, the verb     *)
(* runs its hook and returns.                                              *)
(***************************************************************************)
\* Boot::cast, the default (src/src/event.rs): the identity.
cast(data) == data

ErrResultFirst(verb, e) ==
    Result(verb, "err", "E1", EmptyDoc, <<>>, 0)

\* Err(e) => Err(e), `?`, or the driver's result returned as it is.
ErrResult(verb, e) == Result(verb, "err", e, EmptyDoc, <<>>, 0)

\* The finish hook of a write verb whose driver call succeeded.
FinishOfSingleTag(c, req, out) ==
    CASE c.verb \in {"create", "create_doc"} ->
            <<FinishEv("create", c.sess, EmptyDoc, c.doc, NoUpd)>>
      [] req.op \in {"update_many", "find_one_and_update"} ->
            <<FinishEv("update", c.sess, out.old, EmptyDoc, c.upd)>>
      [] req.op \in {"delete_many", "find_one_and_delete"} ->
            <<FinishEv("delete", c.sess, out.old, EmptyDoc, NoUpd)>>
      [] OTHER -> <<>>

FinishOf(c, req, out) ==
    CASE c.verb \in {"create", "create_doc"} ->
            <<FinishEv("create", c.sess, EmptyDoc, c.doc, NoUpd)>>
      [] req.op = "update_many" ->
            <<FinishEv("update_many", c.sess,
                       [modified_count |-> CountStr(out.n)], EmptyDoc, c.upd)>>
      [] req.op = "find_one_and_update" ->
            <<FinishEv("update", c.sess, out.old, EmptyDoc, c.upd)>>
      [] req.op = "delete_many" ->
            <<FinishEv("delete_many", c.sess,
                       [deleted_count |-> CountStr(out.n)], EmptyDoc, NoUpd)>>
      [] req.op = "find_one_and_delete" ->
            <<FinishEv("delete", c.sess, out.old, EmptyDoc, NoUpd)>>
      [] OTHER -> <<>>

\* The typed records of a read: clear(cast(d), hidden_fields) of each.
TypedDocs(docs, hidden, cols) ==
    [i \in 1..Len(docs) |-> clear(cast(docs[i]), hidden, cols)]

\* The documents of a raw read: cast(d) of each, and nothing else.
CastDocsMasked(docs) ==
    [i \in 1..Len(docs) |->
        clear(cast(docs[i]), hidden_fields(columns, <<>>), columns)]

CastDocs(docs) == [i \in 1..Len(docs) |-> cast(docs[i])]

\* What the verb returns after a successful driver call.
OkResult(c, req, out, cols) ==
    CASE c.verb \in {"create", "create_doc"} ->
            Result(c.verb, "ok", None, [inserted_id |-> out.id], <<>>, 0)
      [] req.op = "update_many" ->
            Result(c.verb, "ok", None, [modified_count |-> CountStr(out.n)],
                   <<>>, out.n)
      [] req.op = "delete_many" ->
            Result(c.verb, "ok", None, [deleted_count |-> CountStr(out.n)],
                   <<>>, out.n)
      [] req.op \in {"find_one_and_update", "find_one_and_delete"} ->
            Result(c.verb, "ok", None, out.old, <<>>, 0)
      [] c.verb \in {"get", "first", "aggregate"} ->
            LET typed == TypedDocs(out.docs, c.hidden, cols)
            IN Result(c.verb, "ok", None, EmptyDoc,
                      [i \in 1..Len(typed) |-> from_document(typed[i])], 0)
      [] c.verb \in {"get_doc", "first_doc", "aggregate_doc"} ->
            Result(c.verb, "ok", None, EmptyDoc, CastDocs(out.docs), 0)
      [] OTHER -> Result(c.verb, "ok", None, EmptyDoc, out.docs, out.n)

\* bson::from_document(default).unwrap() in clear panics on a document
\* that does not decode into M.
DecodePanics(c, out, cols) ==
    /\ c.verb \in {"get", "first", "aggregate"}
    /\ \E i \in 1..Len(out.docs) :
        ~Decodable(clear(cast(out.docs[i]), c.hidden, cols))

\* The query state a verb leaves: every verb takes &self or &mut self and
\* none calls reset(); count_documents(self) takes the model by value, so
\* what the caller works with next is a model as Model::new makes it.
QueryAfterReset(verb, q) == DefaultQB

QueryAfter(verb, q) == IF verb = "count_documents" THEN DefaultQB ELSE q

DriverReturn ==
    /\ cpc = "await"
    /\ \E req \in inflight, answer \in {"ok"} \cup Errors :
        LET out == Exec(req, coll, OidOf(nextId))
            e == IF answer # "ok" THEN answer ELSE "E1"
        IN /\ inflight' = inflight \ {req}
           /\ IF answer = "ok" /\ out.ok
              THEN /\ coll' = out.coll
                   /\ nextId' = IF out.id = OidOf(nextId) THEN nextId + 1 ELSE nextId
                   /\ IF DecodePanics(cur, out, columns)
                      THEN /\ log' = Append(log, RetEv(req, None))
                           /\ result' = Result(cur.verb, "panic", None, EmptyDoc, <<>>, 0)
                           /\ cpc' = "panicked"
                      ELSE /\ log' = Append(log, RetEv(req, None))
                                     \o FinishOf(cur, req, out)
                           /\ result' = OkResult(cur, req, out, columns)
                           /\ cpc' = "idle"
              ELSE /\ log' = Append(log, RetEv(req, e))
                   /\ result' = ErrResult(cur.verb, e)
                   /\ cpc' = "idle"
                   /\ UNCHANGED <<coll, nextId>>
    /\ qb' = QueryAfter(cur.verb, qb)
    /\ IF cur.verb = "count_documents"
       THEN /\ inner' = DefaultM
            /\ columns' = UserColumns
       ELSE UNCHANGED <<inner, columns>>
    /\ cur' = NoCur
    /\ UNCHANGED <<add_times, now, session, ops>>
    /\ UNCHANGED idxVarsNoColumns

(***************************************************************************)
(* Specifications                                                          *)
(***************************************************************************)
IdxIdle ==
    /\ live = <<IdIndex>>
    /\ pc = [p \in Tasks |-> "idle"]
    /\ attrs = [p \in Tasks |-> {}]
    /\ keys_to_remove = [p \in Tasks |-> <<>>]
    /\ batch = [p \in Tasks |-> {}]
    /\ idxCalls = [p \in Tasks |-> <<>>]
    /\ passNo = [p \in Tasks |-> 0]
    /\ clean = TRUE

\* Model::new (lines 76-95).
NewModelOf(cols) ==
    /\ columns = cols
    /\ inner = DefaultM
    /\ qb = DefaultQB
    /\ session = "none"
    /\ inflight = {}
    /\ log = <<>>
    /\ result = NoResult
    /\ cpc = "idle"
    /\ cur = NoCur
    /\ now = 1

NewModel == NewModelOf(UserColumns)

\* The collections a model can find: empty, or holding the document an
\* earlier create stored for a filled record.
SeedDoc(addt) ==
    Insert(CreateData(RenameFlat([DefaultM EXCEPT !.name = "a", !.password = "s"],
                                 UserColumns, <<"password">>),
                      addt, "t0"),
           "_id", "o1")

InitSeeded ==
    /\ add_times \in BOOLEAN
    /\ \/ coll = <<>> /\ nextId = 1
       \/ coll = <<SeedDoc(add_times)>> /\ nextId = 2

InitEmpty ==
    /\ add_times \in BOOLEAN
    /\ coll = <<>>
    /\ nextId = 1

Init ==
    /\ NewModel
    /\ InitSeeded
    /\ ops = MaxOps
    /\ IdxIdle

Next ==
    \/ reset \/ where \/ skip \/ limit \/ sort \/ all \/ select \/ visible
    \/ upsert \/ fill \/ add_columns
    \/ create \/ create_doc \/ update \/ delete
    \/ get \/ first \/ get_doc \/ first_doc \/ aggregate \/ aggregate_doc
    \/ distinct \/ count_documents
    \/ DriverReturn

Spec == Init /\ [][Next]_vars

\* Verbs on a model whose builder has been configured: each verb of the
\* interface after the settings it reads.
NextVerbs ==
    \/ reset \/ where \/ all \/ upsert \/ visible
    \/ create \/ update \/ delete
    \/ get \/ get_doc \/ first \/ aggregate
    \/ distinct \/ count_documents
    \/ DriverReturn

SpecVerbs == Init /\ [][NextVerbs]_vars

\* The collections a model can find with several documents in it: up to
\* MaxDocs records stored by earlier creates, identified in insertion order.
SeedRecords ==
    {[DefaultM EXCEPT !.name = "a", !.password = "s"],
     [DefaultM EXCEPT !.name = "b", !.password = "s"],
     [DefaultM EXCEPT !.name = "b"]}

StoredAs(m, id) ==
    Insert(CreateData(RenameFlat(m, UserColumns, <<"password">>), FALSE, "t0"),
           "_id", id)

RECURSIVE CollsOf(_)
CollsOf(n) ==
    IF n = 0 THEN {<<>>}
    ELSE {Append(c, StoredAs(m, OidOf(n))) : c \in CollsOf(n - 1), m \in SeedRecords}

InitialColls == UNION {CollsOf(n) : n \in 0..MaxDocs}

InitFound ==
    /\ add_times \in BOOLEAN
    /\ coll \in InitialColls
    /\ nextId = Len(coll) + 1

\* count_documents on the filters, skips and limits a caller sets.
InitCount ==
    /\ NewModel
    /\ InitFound
    /\ ops = MaxOps
    /\ IdxIdle

NextCount ==
    \/ where \/ skip \/ limit
    \/ count_documents
    \/ DriverReturn

SpecCount == InitCount /\ [][NextCount]_vars

\* A record is written, then read back through the typed path.
InitRound ==
    /\ NewModel
    /\ InitEmpty
    /\ ops = MaxRoundOps
    /\ IdxIdle

NextRound ==
    \/ fill \/ select \/ visible
    \/ create \/ get \/ first \/ aggregate
    \/ DriverReturn

SpecRound == InitRound /\ [][NextRound]_vars

\* Consecutive updates on one filter, with and without upsert().
NextUpsert ==
    \/ where \/ upsert \/ all
    \/ update
    \/ DriverReturn

SpecUpsert == InitRound /\ [][NextUpsert]_vars

\* The write verbs on a configured model.
NextWrite ==
    \/ where \/ all \/ upsert \/ sort
    \/ create \/ create_doc \/ update \/ delete
    \/ DriverReturn

SpecWrite == Init /\ [][NextWrite]_vars

\* update, and delete, on a collection of several documents.  The dispatch
\* of update does not read add_times: the model is made without timestamps.
InitUpdate ==
    /\ NewModel
    /\ add_times = FALSE
    /\ coll \in InitialColls
    /\ nextId = Len(coll) + 1
    /\ ops = MaxOps
    /\ IdxIdle

NextUpdate ==
    \/ where \/ all \/ upsert \/ sort \/ limit
    \/ update
    \/ DriverReturn

SpecUpdate == InitUpdate /\ [][NextUpdate]_vars

NextDelete ==
    \/ where \/ all \/ sort \/ limit
    \/ delete
    \/ DriverReturn

SpecDelete == InitCount /\ [][NextDelete]_vars

\* The typed and the raw reads of a collection as found.
NextRead ==
    \/ where \/ select \/ visible
    \/ get \/ first \/ aggregate
    \/ get_doc \/ first_doc \/ aggregate_doc
    \/ DriverReturn

SpecRead == InitCount /\ [][NextRead]_vars

\* The configuration calls, and first.
NextBuild ==
    \/ reset \/ where \/ skip \/ limit \/ sort \/ all \/ select \/ visible
    \/ upsert
    \/ first
    \/ DriverReturn

SpecBuild == Init /\ [][NextBuild]_vars

(***************************************************************************)
(* Properties of the terminal verbs                                        *)
(***************************************************************************)
WriteVerbsWithFilter == {"update", "delete"}

CallCount == Cardinality({i \in DOMAIN log : log[i].ev = "call"})

\* C1: update and delete called on a model whose filter list is empty always
\* return the InvalidInput usage error, issue no driver call and run no
\* finish hook, whatever the payload, the flags and the session.  (The
\* builder keeps the filter list while the verb runs, and a builder call
\* closes the record of the verb.)
C1_EmptyFilterIsUsageError ==
    (cur.verb \in WriteVerbsWithFilter /\ qb.where = <<>>) =>
        /\ result = Result(cur.verb, "err", InvalidInput, EmptyDoc, <<>>, 0)
        /\ log = <<>>
        /\ inflight = {}
        /\ cpc = "idle"

\* C5 as stated: after a terminal verb returns, the filter list, sort, skip,
\* limit, projection, visible list and the all and upsert flags are back to
\* their defaults.
TerminalVerbs ==
    {"create", "update", "delete", "get", "get_doc", "first", "aggregate",
     "distinct"}

C5_QueryStateResetAfterVerb ==
    (cpc = "idle" /\ result.verb \in TerminalVerbs /\ result.kind \in {"ok", "err"})
        => qb = DefaultQB

\* The verb a step invokes, if it invokes one.
Invoked == IF cpc' = "await" THEN cur'.verb ELSE result'.verb

\* C5, amended: no terminal verb resets the query state.  Invoking a verb
\* leaves the builder as it is, except that first and first_doc set limit to
\* 1; the return of a verb leaves it as it is, except that count_documents
\* consumes the model.  The settings stay until reset() is called.
C5_VerbsKeepQueryState ==
    [][/\ ops' # ops =>
            qb' = IF Invoked \in {"first", "first_doc"}
                  THEN [qb EXCEPT !.limit = 1] ELSE qb
       /\ (cpc = "await" /\ cpc' # "await") =>
            qb' = IF cur.verb = "count_documents" THEN DefaultQB ELSE qb]_vars

\* C5 witness: get has returned on a model that still carries its filter.
C5_Witness ==
    /\ cpc = "idle"
    /\ result.verb = "get"
    /\ result.kind = "ok"
    /\ qb.where # <<>>

ErrorVerbs ==
    {"create", "update", "delete", "get", "count_documents", "distinct"}

\* C9: when the driver call of create, update, delete, get, count_documents
\* or distinct fails, the verb returns that same error as its result, and
\* the failed call is the only driver call of the invocation: nothing is
\* retried, nothing is left in flight, no finish hook runs.
C9_DriverErrorPropagated ==
    \A i \in DOMAIN log :
        (log[i].ev = "ret" /\ log[i].err # None /\ result.verb \in ErrorVerbs) =>
            /\ i = 2
            /\ Len(log) = 2
            /\ log[1].ev = "call"
            /\ result = Result(result.verb, "err", log[i].err, EmptyDoc, <<>>, 0)
            /\ inflight = {}
            /\ cpc = "idle"

\* C9 witness: the driver call of update failed with the second error.
C9_Witness ==
    /\ result.verb = "update"
    /\ result.kind = "err"
    /\ result.err = "E2"
    /\ Len(log) = 2

\* The payload with every declared identifier replaced by its wire name,
\* as C10 states it.
WireNamed(flat, cols) ==
    LET wire(k) == IF k \in DOMAIN cols THEN Wire(cols, k) ELSE k
    IN [w \in {wire(k) : k \in DOMAIN flat} |->
            flat[CHOOSE k \in DOMAIN flat : wire(k) = w]]

\* C10: for update with a payload that has no top-level key starting with
\* "$", the update expression sent to the driver is {"$set": P'}, P' the
\* payload under wire names, with updated_at = now in "$set" when
\* timestamping is enabled and a "$setOnInsert" holding created_at exactly
\* when upsert and timestamping are both active.
C10_PlainPayloadWrappedInSet ==
    (cpc = "await" /\ cur.verb = "update" /\ ~is_opt(cur.payload)) =>
        LET P == WireNamed(Flat(cur.payload), columns)
            set == IF add_times THEN Insert(P, "updated_at", DateOf(now)) ELSE P
            base == "$set" :> Sub(set)
        IN cur.upd =
            IF qb.upsert /\ add_times
            THEN Insert(base, "$setOnInsert", Sub([created_at |-> DateOf(now)]))
            ELSE base

(***************************************************************************)
(* Properties of the write verbs                                           *)
(***************************************************************************)
\* The positions of the documents of c that match every where clause.
Matching(c, whr) ==
    {i \in DOMAIN c : \A j \in DOMAIN whr : \A k \in DOMAIN whr[j] :
        k \in DOMAIN c[i] /\ c[i][k] = whr[j][k]}

Ids(c, S) == {c[i]["_id"] : i \in S}

\* update with upsert() has just returned successfully.
UpsertReturns ==
    /\ cpc = "await"
    /\ cur.verb = "update"
    /\ qb.upsert
    /\ result'.kind = "ok"

\* The update expression leaves every field the filter tests at the value
\* the filter requires.
KeepsFilter(upd, whr) ==
    \A j \in DOMAIN whr : \A k \in DOMAIN whr[j] :
        /\ k \notin DOMAIN Part(upd, "$unset")
        /\ \A op \in {"$set", "$setOnInsert"} :
            k \in DOMAIN Part(upd, op) => Part(upd, op)[k] = whr[j][k]

\* C11 as stated: an update with upsert() and filter F on a collection with
\* no document matching F leaves exactly one, and on a collection with one
\* document matching F leaves that one document matching, so that
\* consecutive calls keep one document with one identifier.
C11_UpsertKeepsOneDocument ==
    [][UpsertReturns =>
        /\ Matching(coll, qb.where) = {} =>
            Cardinality(Matching(coll', qb.where)) = 1
        /\ Cardinality(Matching(coll, qb.where)) = 1 =>
            /\ Cardinality(Matching(coll', qb.where)) = 1
            /\ Ids(coll', Matching(coll', qb.where))
                = Ids(coll, Matching(coll, qb.where))]_vars

\* C11, amended: the same, for an update expression that leaves the fields
\* the filter tests at the values the filter requires.
C11_UpsertKeepsOneDocumentIfFilterKept ==
    [][(UpsertReturns /\ KeepsFilter(cur.upd, qb.where)) =>
        /\ Matching(coll, qb.where) = {} =>
            Cardinality(Matching(coll', qb.where)) = 1
        /\ Cardinality(Matching(coll, qb.where)) = 1 =>
            /\ Cardinality(Matching(coll', qb.where)) = 1
            /\ Ids(coll', Matching(coll', qb.where))
                = Ids(coll, Matching(coll, qb.where))]_vars

\* C11 witness: the second of two upserting updates found the document the
\* first inserted, and the collection holds that one document.
C11_Witness ==
    /\ ops = 0
    /\ cpc = "idle"
    /\ qb.upsert
    /\ result.verb = "update"
    /\ result.kind = "ok"
    /\ result.doc # EmptyDoc
    /\ "_id" \in DOMAIN result.doc
    /\ Len(coll) = 1
    /\ Matching(coll, qb.where) = {1}

(***************************************************************************)
(* Properties of count_documents                                           *)
(***************************************************************************)
Min(a, b) == IF a < b THEN a ELSE b
Max(a, b) == IF a > b THEN a ELSE b

\* C12: count_documents returns min(limit, max(0, n - skip)), n the number
\* of documents matching every where clause (all of them when there is
\* none); a limit of 0 is no limit, a skip of 0 no skip.
C12_CountIsWindowOfMatches ==
    [][(cpc = "await" /\ cur.verb = "count_documents" /\ result'.kind = "ok") =>
        LET n == Cardinality(Matching(coll, qb.where))
            rest == Max(0, n - qb.skip)
        IN result'.n = IF qb.limit = 0 THEN rest ELSE Min(qb.limit, rest)]_vars

\* C12 witness: with two matching documents, skip(1) and limit(1),
\* count_documents has returned 1.
C12_Witness ==
    /\ result.verb = "count_documents"
    /\ result.kind = "ok"
    /\ result.n = 1
    /\ log[1].req.skip = 1
    /\ log[1].req.limit = 1
    /\ Cardinality(Matching(coll, log[1].req.whr)) = 2

(***************************************************************************)
(* Properties of the typed round trip                                      *)
(***************************************************************************)
TypedReads == {"get", "first", "aggregate"}

\* The stored document a typed record was read from.
StoredOf(r) == coll[CHOOSE i \in DOMAIN coll : coll[i]["_id"] = r["_id"]]

\* The projection of the read that has just returned keeps key k.
Kept(k) == ~log[1].req.select.some \/ k \in log[1].req.select.keys

ReadReturned == cpc = "idle" /\ result.verb \in TypedReads /\ result.kind = "ok"

HiddenColumns == {n \in DOMAIN columns : columns[n].hidden}

\* C3 as stated: a typed read with the identifier of a hidden column in
\* visible() returns the stored value v of that column.
C3_VisibleReturnsStored ==
    ReadReturned =>
        \A i \in DOMAIN result.docs : \A n \in HiddenColumns :
            n \in Range(qb.visible_fields) =>
                result.docs[i][n] = StoredOf(result.docs[i])[Wire(columns, n)]

\* C3, amended: a typed read (get, first, aggregate) returns the stored
\* value of a hidden column when its identifier is in visible() and the
\* projection of the read keeps its wire name, and the default of the type
\* otherwise: no typed read exposes the stored value of a hidden column that
\* is not in the visible list.
C3_Masking ==
    ReadReturned =>
        \A i \in DOMAIN result.docs : \A n \in HiddenColumns :
            result.docs[i][n] =
                IF n \in Range(qb.visible_fields) /\ Kept(Wire(columns, n))
                THEN StoredOf(result.docs[i])[Wire(columns, n)]
                ELSE DefaultM[n]

\* C3 witness: a record written with password "s" has been read with the
\* password made visible, and the read returned "s".
C3_Witness ==
    /\ ReadReturned
    /\ qb.visible_fields = <<"password">>
    /\ \E i \in DOMAIN result.docs :
        /\ result.docs[i]["password"] = "s"
        /\ StoredOf(result.docs[i])["pswd"] = "s"

Overridden == {n \in DOMAIN columns : columns[n].name # None /\ columns[n].name # n}

SessionFrame ==
    /\ UNCHANGED <<columns, add_times, inner, qb, coll, nextId, now, inflight,
                   log, result, cpc, cur, ops>>
    /\ UNCHANGED idxVarsNoColumns

StartTransaction ==
    /\ cpc = "idle"
    /\ session = "none"
    /\ session' = "active"
    /\ SessionFrame

CommitTransaction ==
    /\ cpc = "idle"
    /\ session = "active"
    /\ session' = "committed"
    /\ SessionFrame

InitSess ==
    /\ NewModel
    /\ InitSeeded
    /\ ops = MaxRoundOps
    /\ IdxIdle

NextSess ==
    \/ StartTransaction \/ CommitTransaction
    \/ where
    \/ create \/ create_doc \/ update \/ delete
    \/ get \/ get_doc \/ first \/ aggregate
    \/ DriverReturn

SpecSess == InitSess /\ [][NextSess]_vars

(***************************************************************************)
(* register_indexes run on the collections it can meet                     *)
(***************************************************************************)
IdxColumns == [{"phone", "bio"} -> IndexAttrs]

InitIdx ==
    /\ columns \in IdxColumns
    /\ live \in InitialLives
    /\ pc = [p \in Tasks |-> "idle"]
    /\ attrs = [p \in Tasks |-> {}]
    /\ keys_to_remove = [p \in Tasks |-> <<>>]
    /\ batch = [p \in Tasks |-> {}]
    /\ idxCalls = [p \in Tasks |-> <<>>]
    /\ passNo = [p \in Tasks |-> 0]
    /\ clean = TRUE
    /\ NewModelOf(columns)
    /\ add_times = FALSE
    /\ coll = <<>>
    /\ nextId = 1
    /\ ops = 0

\* One task running register_indexes MaxPasses times in succession.
NextIdx ==
    \/ RegList(1)
    \/ RegDrop(1)
    \/ RegCreate(1)

SpecIdx == InitIdx /\ [][NextIdx]_vars

\* register_indexes for one declared column, under every combination of
\* its index attributes, on a collection that has only the _id index.
AllAttrs ==
    {ColumnAttr(a, d, u, g, t, FALSE, None) :
        a \in BOOLEAN, d \in BOOLEAN, u \in BOOLEAN, g \in BOOLEAN,
        t \in {None, "en"}}

AttrColumns == [{"phone"} -> AllAttrs]

InitAttr ==
    /\ columns \in AttrColumns
    /\ IdxIdle
    /\ NewModelOf(columns)
    /\ add_times = FALSE
    /\ coll = <<>>
    /\ nextId = 1
    /\ ops = 0

SpecAttr == InitAttr /\ [][NextIdx]_vars

\* Two tasks run register_indexes on the same collection at the same time,
\* their driver calls interleaved in every order, and task 1 runs it once
\* more when both have returned.  The server answers every call: the
\* listing yields every descriptor, a drop fails only for an index that is
\* not there, a create only for a conflict.
Listed(p) ==
    LET st == ScanIndexes([attrs |-> DesiredAttrs(columns),
                           keys_to_remove |-> <<>>], live, {}, 1)
    IN /\ idxCalls'[p][1].ok
       /\ attrs'[p] = st.attrs
       /\ keys_to_remove'[p] = st.keys_to_remove
       /\ clean' = clean

Answered(p) ==
    \/ pc'[p] = "panicked"
    \/ idxCalls'[p] = idxCalls[p]
    \/ /\ idxCalls'[p][Len(idxCalls'[p])].op = "drop_index"
       /\ idxCalls'[p][Len(idxCalls'[p])].ok
            = (\E i \in 1..Len(live) : live[i].name = Head(keys_to_remove[p]))
    \/ /\ idxCalls'[p][Len(idxCalls'[p])].op = "create_indexes"
       /\ idxCalls'[p][Len(idxCalls'[p])].ok
            = (\A d \in batch[p] : ~Conflicts(live, StoredIndex(d)))

ConcList(p) ==
    /\ RegList(p)
    /\ Listed(p)
    /\ \/ passNo[p] = 0
       \/ p = 1 /\ \A q \in Tasks : pc[q] = "done"

ConcDrop(p) == RegDrop(p) /\ Answered(p)

ConcCreate(p) == RegCreate(p) /\ Answered(p)

NextConc == \E p \in Tasks : ConcList(p) \/ ConcDrop(p) \/ ConcCreate(p)

SpecConc == InitIdx /\ [][NextConc]_vars

(***************************************************************************)
(* Properties of the column attributes                                     *)
(***************************************************************************)
\* The attribute makes its column an index column, as C13 states it.
Indexed(attr) ==
    attr.unique \/ attr.asc \/ attr.desc \/ attr.sphere2d \/ attr.text # None

\* C13: is_index() is true if and only if at least one of unique, ascending,
\* descending, geoSphere holds or a text language is present; so the columns
\* a first pass sets out to index on a collection without indexes are
\* exactly those.
C13_IsIndexIffAnyFlag ==
    /\ \A n \in DOMAIN columns : is_index(columns[n]) <=> Indexed(columns[n])
    /\ passNo[1] = 1 => attrs[1] = {n \in DOMAIN columns : Indexed(columns[n])}

\* C13 witness: a column that is only unique has been taken as an index
\* column by a pass.
C13_Witness ==
    /\ passNo[1] = 1
    /\ columns["phone"] = UniqueAttr
    /\ attrs[1] = {"phone"}

(***************************************************************************)
(* Properties of the session                                               *)
(***************************************************************************)
\* C8 as stated: every verb invoked with a session issues exactly one driver
\* operation.
C8_SessionVerbIssuesOneCall ==
    (cur.verb # None /\ cur.sess) => CallCount = 1

\* C8, amended: a verb invoked with a session issues at most one driver
\* operation, and exactly one unless it stops before the driver (update and
\* delete on an empty filter list, update panicking on its payload); the
\* operation is bound to the session the verb was given, a verb invoked
\* without a session issues no session-bound operation, at most one operation
\* is in flight at any time, and only the caller starts or commits the
\* session.
C8_SessionThreading ==
    /\ [](/\ Cardinality(inflight) <= 1
          /\ CallCount <= 1
          /\ \A i \in DOMAIN log : log[i].ev = "call" => i = 1
          /\ cpc = "await" =>
                /\ CallCount = 1
                /\ inflight = {log[1].req}
                /\ log[1].sess = cur.sess
          /\ (cpc # "await" /\ cur.verb # None) => CallCount = 0
          /\ (cpc = "idle" /\ result.kind # "none" /\ cur.verb = None) =>
                CallCount = 1 /\ inflight = {})
    /\ [][session' # session =>
            UNCHANGED <<qb, inner, coll, inflight, log, result, cpc, cur, ops>>]_vars

\* C8 witness: inside the caller's transaction a verb awaits its one
\* operation, which carries the session.
C8_Witness ==
    /\ session = "active"
    /\ cpc = "await"
    /\ cur.sess
    /\ \E r \in inflight : r.sess

(***************************************************************************)
(* Properties of register_indexes                                          *)
(***************************************************************************)
Quiet(calls) == \A i \in DOMAIN calls : calls[i].op = "list_indexes"

\* C2: when register_indexes runs twice in succession with every driver call
\* succeeding and nothing else changing the indexes, the second run issues
\* no create_indexes call and no drop_index call.
C2_SecondPassIsNoOp ==
    (passNo[1] = 2 /\ pc[1] = "done" /\ clean) => Quiet(idxCalls[1])

\* C6: when list_indexes fails, register_indexes issues no drop_index call
\* and no create_indexes call before it returns.
C6_FailedListingSkipsReconciliation ==
    (pc[1] = "done" /\ ~idxCalls[1][1].ok) => Quiet(idxCalls[1])

\* C7: whatever descriptors list_indexes yields and whatever the outcome of
\* each driver call, register_indexes does not abort: it never panics.
C7_ReconciliationNeverAborts == pc[1] # "panicked"

\* The scan of a first pass has just ended, list_indexes having succeeded
\* and every descriptor having unpacked.
AfterCleanScan ==
    /\ passNo[1] = 1
    /\ pc[1] = "drop"
    /\ Len(idxCalls[1]) = 1
    /\ clean

\* C14: after the scan, a live index that carries a language marker and
\* whose name is a declared indexed column has taken that column out of the
\* desired set and is not scheduled for drop, whatever its keys.
C14_NamedTextIndexIsKept ==
    AfterCleanScan =>
        \A i \in DOMAIN live :
            (live[i].lang # None /\ live[i].name \in DesiredAttrs(columns)) =>
                /\ live[i].name \notin attrs[1]
                /\ live[i].name \notin Range(keys_to_remove[1])

\* Column n is a key of some live index of lv, or has its text index there.
Covered(lv, n) ==
    \E i \in DOMAIN lv :
        \/ n \in Range(lv[i].keys)
        \/ lv[i].lang # None /\ lv[i].name = n

\* C15: no step of a pass takes from a declared indexed column the last live
\* index it is a key of, and after a pass whose driver calls all succeeded
\* every declared indexed column has a live index.
C15_PassKeepsDeclaredIndexes ==
    /\ [][\A n \in DesiredAttrs(columns) :
            (\E i \in DOMAIN live : n \in Range(live[i].keys)) =>
                (\E i \in DOMAIN live' : n \in Range(live'[i].keys))]_vars
    /\ []((passNo[1] = 1 /\ pc[1] = "done" /\ clean) =>
            \A n \in DesiredAttrs(columns) : Covered(live, n))

\* The descriptor C16 states for a column with attributes a.
Descriptor(n, a) ==
    [key |-> n,
     kind |-> IF a.text # None THEN "text"
              ELSE IF a.sphere2d THEN "2dsphere"
              ELSE IF a.desc THEN "-1" ELSE "1",
     unique |-> a.unique,
     name |-> IF a.text # None THEN n ELSE None,
     lang |-> a.text]

Creates(calls) == {i \in DOMAIN calls : calls[i].op = "create_indexes"}

WriteVerbs == {"create", "create_doc", "update", "delete"}

Finishes == {i \in DOMAIN log : log[i].ev = "finish"}

Succeeded == \E i \in DOMAIN log : log[i].ev = "ret" /\ log[i].err = None

\* The tag of the path a write verb takes.
TagOf(verb, q) ==
    CASE verb \in {"create", "create_doc"} -> "create"
      [] verb = "update" -> IF q.all THEN "update_many" ELSE "update"
      [] OTHER -> IF q.all THEN "delete_many" ELSE "delete"

\* C17: create, create_doc, update and delete invoke the finish hook once,
\* after the driver call has returned and before the verb returns, if and
\* only if the driver call succeeded, and never otherwise; the tag is that
\* of the path taken; create passes an empty old document and the inserted
\* document, delete an empty new document.
C17_FinishHookOnSuccessOnly ==
    /\ cpc = "await" => Finishes = {}
    /\ (cpc = "idle" /\ result.verb \in WriteVerbs) =>
        /\ Succeeded <=> result.kind = "ok"
        /\ Finishes = IF Succeeded THEN {3} ELSE {}
        /\ Succeeded =>
            /\ Len(log) = 3
            /\ log[1].ev = "call" /\ log[2].ev = "ret"
            /\ log[3].op = TagOf(result.verb, qb)
            /\ result.verb \in {"create", "create_doc"} =>
                /\ log[3].old = EmptyDoc
                /\ log[3].doc = log[1].req.doc
                /\ \E i \in DOMAIN coll :
                    coll[i] = Insert(log[3].doc, "_id", result.doc.inserted_id)
            /\ result.verb = "delete" =>
                log[3].doc = EmptyDoc /\ log[3].upd = NoUpd

\* C17 witness: an update over every matching document has succeeded and
\* its hook has run.
C17_Witness ==
    /\ cpc = "idle"
    /\ result.verb = "update"
    /\ result.kind = "ok"
    /\ qb.all
    /\ Finishes = {3}
    /\ log[3].op = "update_many"

(***************************************************************************)
(* Properties of update and delete                                         *)
(***************************************************************************)
\* The verb's driver call has just returned successfully.
Returns(verb) ==
    /\ cpc = "await"
    /\ cur.verb = verb
    /\ result'.kind = "ok"

\* The first of the positions S of c in the order of sort: natural order
\* when no sort is set, and among equal keys.
FirstOf(c, S, srt) ==
    CHOOSE t \in S : \A j \in S \ {t} :
        IF srt.key = None THEN t < j
        ELSE \/ Before(c[t], c[j], srt)
             \/ ~Before(c[j], c[t], srt) /\ t < j

Changed(c, d) == {i \in DOMAIN c : i \notin DOMAIN d \/ d[i] # c[i]}

\* C18: update with a non-empty filter and all() runs update_many over
\* every matching document, whatever the sort and the limit, and returns a
\* document with a modified_count field; without all() it modifies at most
\* one document, the first match in the configured sort order, and returns
\* its pre-image, or an empty document when none matched (also when an
\* upsert inserted one); both paths pass the upsert flag to the driver.
C18_UpdateDispatchesOnAll ==
    [][Returns("update") =>
        LET M == Matching(coll, qb.where)
            req == log[1].req
        IN /\ qb.where # <<>>
           /\ req.upsert = qb.upsert
           /\ req.upd = cur.upd
           /\ \A i \in DOMAIN coll \ M : coll'[i] = coll[i]
           /\ Len(coll') = IF M = {} /\ qb.upsert THEN Len(coll) + 1 ELSE Len(coll)
           /\ qb.all =>
                /\ req.op = "update_many"
                /\ \A i \in M : coll'[i] = ApplyUpdate(coll[i], cur.upd, FALSE)
                /\ DOMAIN result'.doc = {"modified_count"}
                /\ result'.doc.modified_count
                    = CountStr(Cardinality(Changed(coll, coll')))
           /\ ~qb.all =>
                /\ req.op = "find_one_and_update"
                /\ Cardinality(Changed(coll, coll')) <= 1
                /\ M = {} => result'.doc = EmptyDoc
                /\ M # {} =>
                    LET t == FirstOf(coll, M, qb.sort)
                    IN /\ result'.doc = coll[t]
                       /\ coll'[t] = ApplyUpdate(coll[t], cur.upd, FALSE)
                       /\ \A i \in M \ {t} : coll'[i] = coll[i]]_vars

\* C18 witness: an update without all() on a filter matching two documents
\* has returned the second of them, the first in the descending sort.
C18_Witness ==
    /\ cpc = "idle"
    /\ result.verb = "update"
    /\ result.kind = "ok"
    /\ ~qb.all
    /\ qb.sort.key = "name"
    /\ qb.where = <<[pswd |-> "s"]>>
    /\ Len(coll) = 2
    /\ Matches(coll[1], [pswd |-> "s"])
    /\ "_id" \in DOMAIN result.doc
    /\ result.doc["_id"] = coll[2]["_id"]
    /\ result.doc # coll[2]

\* c without the document at position t.
Without(c, t) ==
    [i \in 1..(Len(c) - 1) |-> IF i < t THEN c[i] ELSE c[i + 1]]

NotMatching(d, whr) ==
    \E j \in DOMAIN whr : \E k \in DOMAIN whr[j] :
        k \notin DOMAIN d \/ d[k] # whr[j][k]

\* The documents of c that fail a where clause, in their order.
Others(c, whr) == SelectSeq(c, LAMBDA d : NotMatching(d, whr))

\* C19: delete with a non-empty filter and without all() removes at most
\* one document, the first match in the configured sort order, returns it
\* (an empty document when none matches) and leaves every other document
\* as it was, so that no document matches a filter that matched exactly
\* one; with all() it removes every matching document, whatever the sort
\* and the limit, and returns their number as deleted_count.
C19_DeleteDispatchesOnAll ==
    [][Returns("delete") =>
        LET M == Matching(coll, qb.where)
            req == log[1].req
        IN /\ qb.where # <<>>
           /\ qb.all =>
                /\ req.op = "delete_many"
                /\ coll' = Others(coll, qb.where)
                /\ Matching(coll', qb.where) = {}
                /\ result'.doc = [deleted_count |-> CountStr(Cardinality(M))]
           /\ ~qb.all =>
                /\ req.op = "find_one_and_delete"
                /\ M = {} => coll' = coll /\ result'.doc = EmptyDoc
                /\ M # {} =>
                    LET t == FirstOf(coll, M, qb.sort)
                    IN /\ result'.doc = coll[t]
                       /\ coll' = Without(coll, t)
                /\ Cardinality(M) = 1 => Matching(coll', qb.where) = {}]_vars

\* C19 witness: a delete without all() on a filter matching two documents
\* has removed the second of them, the first in the descending sort, and
\* left the other.
C19_Witness ==
    /\ cpc = "idle"
    /\ result.verb = "delete"
    /\ result.kind = "ok"
    /\ ~qb.all
    /\ qb.sort.key = "name"
    /\ qb.where = <<[pswd |-> "s"]>>
    /\ "_id" \in DOMAIN result.doc
    /\ result.doc["_id"] = "o2"
    /\ Len(coll) = 1
    /\ coll[1]["_id"] = "o1"
    /\ Matches(coll[1], [pswd |-> "s"])

(***************************************************************************)
(* Properties of create and create_doc                                     *)
(***************************************************************************)
Inserting == cpc = "await" /\ cur.verb \in {"create", "create_doc"}

\* The payloads the verb in progress can have been given.
PayloadsOf(verb) ==
    IF verb = "create" THEN inner_to_doc(inner, columns) ELSE RawDocs

TimesAsStated(doc, verb) ==
    \A k \in {"updated_at", "created_at"} :
        /\ k \in DOMAIN doc
        /\ doc[k] \in Dates
        /\ \/ doc[k] = DateOf(now)
           \/ \E raw \in PayloadsOf(verb) : k \in DOMAIN raw /\ raw[k] = doc[k]

\* C20: create and create_doc issue exactly one insert_one; the document
\* they pass holds no _id that is not an object identifier; with
\* timestamping enabled, updated_at and created_at hold the current time, or
\* the valid datetime the payload held there.
C20_InsertedDocumentIsCleaned ==
    Inserting =>
        /\ Len(log) = 1
        /\ log[1].ev = "call"
        /\ log[1].req.op = "insert_one"
        /\ "_id" \in DOMAIN log[1].req.doc => log[1].req.doc["_id"] \in Oids
        /\ add_times => TimesAsStated(log[1].req.doc, cur.verb)

(***************************************************************************)
(* Properties of rename_field                                              *)
(***************************************************************************)
\* A key rename_field is stated to leave alone: one of no column, of a
\* column without a wire name, or of a column whose wire name is its
\* identifier.  The keys create and update write themselves are left out.
KeptByRename(k) ==
    /\ k \notin {"_id", "updated_at", "created_at"}
    /\ \/ k \notin DOMAIN columns
       \/ columns[k].name \in {None, k}

\* C21: rename_field, and so inner_to_doc (create) and update, changes only
\* the keys of columns whose wire name differs from their identifier: every
\* other key of the payload, a lazy column's included, is in the outbound
\* document with its value.
C21_RenameKeepsOtherKeys ==
    /\ (cpc = "await" /\ cur.verb = "create") =>
        \A k \in DOMAIN inner : KeptByRename(k) =>
            /\ k \in DOMAIN log[1].req.doc
            /\ log[1].req.doc[k] = inner[k]
    /\ (cpc = "await" /\ cur.verb = "update" /\ ~is_opt(cur.payload)) =>
        \A k \in DOMAIN cur.payload : KeptByRename(k) =>
            /\ k \in DOMAIN cur.upd["$set"].d
            /\ cur.upd["$set"].d[k] = cur.payload[k].s

(***************************************************************************)
(* Properties of the raw reads                                             *)
(***************************************************************************)
RawReads == {"get_doc", "first_doc", "aggregate_doc"}

RawReturned == cpc = "idle" /\ result.verb \in RawReads /\ result.kind = "ok"

\* A raw document is the stored one cut to the projection: stored keys
\* (wire names) with stored values, no key renamed, masked or added.
RawAsStored(d) ==
    /\ "_id" \in DOMAIN d
    /\ \A k \in DOMAIN d : k \in DOMAIN StoredOf(d) /\ d[k] = StoredOf(d)[k]
    /\ \A k \in DOMAIN StoredOf(d) : k \in DOMAIN d <=> (k = "_id" \/ Kept(k))

\* A field the projection leaves out has its default in a typed record.
ExcludedIsDefault(r) ==
    \A f \in StructFields \ {"_id"} :
        ~Kept(Wire(columns, f)) => r[f] = DefaultM[f]

\* C22 as stated: the raw reads return the stored documents cut to the
\* projection, a hidden field under its wire name with its stored value
\* whatever the visible list; the typed reads on the same data and query
\* state return the default for every hidden field; a field excluded by
\* the projection is absent from the raw result and default in the typed.
C22_RawUnmaskedTypedDefault ==
    /\ RawReturned => \A i \in DOMAIN result.docs : RawAsStored(result.docs[i])
    /\ ReadReturned =>
        \A i \in DOMAIN result.docs :
            /\ ExcludedIsDefault(result.docs[i])
            /\ \A n \in HiddenColumns : result.docs[i][n] = DefaultM[n]

\* C22, amended: the same, the typed reads returning the default for a
\* hidden field unless its identifier is in the visible list and the
\* projection keeps its wire name, when they return the stored value.
C22_RawUnmaskedTypedMasked ==
    /\ RawReturned => \A i \in DOMAIN result.docs : RawAsStored(result.docs[i])
    /\ ReadReturned =>
        \A i \in DOMAIN result.docs :
            /\ ExcludedIsDefault(result.docs[i])
            /\ \A n \in HiddenColumns :
                result.docs[i][n] =
                    IF n \in Range(qb.visible_fields) /\ Kept(Wire(columns, n))
                    THEN StoredOf(result.docs[i])[Wire(columns, n)]
                    ELSE DefaultM[n]

\* C22 witness: a raw read with an empty visible list has returned the
\* stored password under pswd.
C22_Witness ==
    /\ RawReturned
    /\ qb.visible_fields = <<>>
    /\ \E i \in DOMAIN result.docs :
        /\ "pswd" \in DOMAIN result.docs[i]
        /\ result.docs[i]["pswd"] = "s"
        /\ "password" \notin DOMAIN result.docs[i]

(***************************************************************************)
(* Properties of the configuration calls                                   *)
(***************************************************************************)
\* A configuration call: the model is idle before and after, and no verb
\* has been invoked.
BuilderStep == cpc = "idle" /\ cpc' = "idle" /\ ops' = ops

Differ(q, r) == {f \in DOMAIN q : q[f] # r[f]}

\* r is q after one configuration call: the defaults (reset), or q with one
\* part replaced, the filter list only by appending, a flag only by
\* setting it.
OwnPart(q, r) ==
    \/ r = DefaultQB
    \/ r = q
    \/ \E f \in DOMAIN q :
        /\ Differ(q, r) = {f}
        /\ f = "where" =>
            /\ Len(r.where) = Len(q.where) + 1
            /\ SubSeq(r.where, 1, Len(q.where)) = q.where
        /\ f \in {"all", "upsert"} => r[f] = TRUE

RECURSIVE DropAll(_, _)
DropAll(lv, names) ==
    IF names = <<>> THEN lv
    ELSE DropAll(SelectSeq(lv, LAMBDA ix : ix.name # Head(names)), Tail(names))

\* The index set one pass run alone leaves of lv.
SoloPass(cols, lv) ==
    LET st == ScanIndexes([attrs |-> DesiredAttrs(cols), keys_to_remove |-> <<>>],
                          lv, {}, 1)
        kept == DropAll(lv, st.keys_to_remove)
        made == {StoredIndex(Descriptor(n, cols[n])) : n \in st.attrs}
    IN Range(kept) \cup made

BothReturned == \A p \in Tasks : passNo[p] = 1 /\ pc[p] = "done"

\* C24: two passes with the same metadata running concurrently, under every
\* interleaving of their calls, both return normally and leave the index
\* set a single pass alone leaves of the initial one, and a further pass
\* after both have returned issues no create or drop call.
C24_ConcurrentPassesAgree ==
    /\ [](\A p \in Tasks : pc[p] # "panicked")
    /\ \A l0 \in InitialLives :
        (live = l0) => [](BothReturned => Range(live) = SoloPass(columns, l0))
    /\ []((passNo[1] = 2 /\ pc[1] = "done") => Quiet(idxCalls[1]))

====
